---- MODULE Spec2Model ----
(***************************************************************************)
(* Model of main.py: the page fetcher (fetch_page_source), the two         *)
(* scraping handlers (/categories, /category-products) and the browser     *)
(* sessions they open.  Text is a sequence of one-character strings;       *)
(* opaque literals (the base URL, message fragments) are single tokens.    *)
(***************************************************************************)
EXTENDS Integers, Sequences, FiniteSets, TLC

(* ------------------------------ bounds --------------------------------- *)
MaxItems == 2
NumReq == 2

(* ------------------------------- text ---------------------------------- *)
Upper == <<"A", "B", "C", "P", "T", "V">>
LowerOf == <<"a", "b", "c", "p", "t", "v">>
Whitespace == {" ", "\n"}

\* str.lower() on one character
LowerChar(c) ==
    IF \E k \in 1..Len(Upper) : Upper[k] = c
    THEN LowerOf[CHOOSE k \in 1..Len(Upper) : Upper[k] = c]
    ELSE c

\* str.lower()
Lower(s) == [i \in 1..Len(s) |-> LowerChar(s[i])]

RECURSIVE LStrip(_)
LStrip(s) ==
    IF s # <<>> /\ Head(s) \in Whitespace THEN LStrip(Tail(s)) ELSE s

RECURSIVE RStrip(_)
RStrip(s) ==
    IF s # <<>> /\ s[Len(s)] \in Whitespace
    THEN RStrip(SubSeq(s, 1, Len(s) - 1))
    ELSE s

\* str.strip()
Strip(s) == RStrip(LStrip(s))

\* Tag.text: the text nodes of the element joined
RECURSIVE Text(_)
Text(nodes) ==
    IF nodes = <<>> THEN <<>> ELSE Head(nodes) \o Text(Tail(nodes))

\* Tag.get_text(strip=True): every text node stripped, then joined
RECURSIVE GetTextStrip(_)
GetTextStrip(nodes) ==
    IF nodes = <<>> THEN <<>>
    ELSE Strip(Head(nodes)) \o GetTextStrip(Tail(nodes))

(* ---------------------------- exceptions ------------------------------- *)
NoExc == [cls |-> "None", status |-> 0, msg |-> <<>>]
PlaywrightError(op) == [cls |-> "Error", status |-> 0, msg |-> <<op>>]
KeyError(key) == [cls |-> "KeyError", status |-> 0, msg |-> key]
HTTPException(code, detail) ==
    [cls |-> "HTTPException", status |-> code, msg |-> detail]

Digits(n) == IF n = 404 THEN <<"4", "0", "4">> ELSE <<"5", "0", "0">>

\* str(e)
Str(e) ==
    CASE e.cls = "KeyError" -> <<"'">> \o e.msg \o <<"'">>
      [] e.cls = "HTTPException" -> Digits(e.status) \o <<":", " ">> \o e.msg
      [] OTHER -> e.msg

(* ------------------------------ markup --------------------------------- *)
BASE_URL == <<"https://www.bestbuy.com">>

HREF == <<"h", "r", "e", "f">>
SRC == <<"s", "r", "c">>

\* li.c-carousel-item elements: a is the first anchor (absent: <<>>),
\* href its attribute (absent: <<>>)
Anchor(nodes, href) == [text |-> nodes, href |-> href]
CarouselItems ==
    { [a |-> <<>>],
      [a |-> <<Anchor(<<<<" ", "T", "v", "\n">>>>, <<<<"/", "a">>>>)>>],
      [a |-> <<Anchor(<<<<"t">>, <<" ", "V">>>>, <<<<"b">>>>)>>],
      [a |-> <<Anchor(<<<<"P", "c">>>>, <<>>)>>] }

\* li.sku-item elements: the three sub-elements, each absent (<<>>) or present
Sku(title, image, price) == [title |-> title, image |-> image, price |-> price]
TitleX == <<[text |-> <<<<" ", "X">>, <<" ">>>>]>>
TitleY == <<[text |-> <<<<"Y">>>>]>>
Img == <<[src |-> <<<<"i">>>>]>>
ImgNoSrc == <<[src |-> <<>>]>>
Price1 == <<[text |-> <<<<"\n", "$", "1", " ">>>>]>>
SkuItems ==
    { Sku(TitleX, Img, Price1),
      Sku(TitleY, Img, Price1),
      Sku(<<>>, Img, Price1),
      Sku(TitleX, <<>>, Price1),
      Sku(TitleX, Img, <<>>),
      Sku(TitleY, ImgNoSrc, Price1) }

SeqsUpTo(S, n) == UNION { [1..k -> S] : k \in 0..n }

Markup(choose, carousel, skus) ==
    [chooseCountry |-> choose, carousel |-> carousel, skus |-> skus]
Blank == Markup(FALSE, <<>>, <<>>)
Interstitial == Markup(TRUE, <<>>, <<>>)

\* variant: the literal is misspelt and never found
HasChooseCountryNever(m) == FALSE

\* "Choose a country" in markup
HasChooseCountry(m) == m.chooseCountry

(* ---------------------------- extraction ------------------------------- *)
Ok(v) == [exc |-> NoExc, val |-> v]
Raised(e) == [exc |-> e, val |-> <<>>]

\* main.py 58-64 / 87-93: the carousel loop
RECURSIVE ExtractCategoriesFrom(_, _)
ExtractCategoriesFrom(items, acc) ==
    IF items = <<>> THEN Ok(acc)
    ELSE LET category == Head(items).a IN
         IF category = <<>> THEN ExtractCategoriesFrom(Tail(items), acc)
         ELSE IF category[1].href = <<>> THEN Raised(KeyError(HREF))
         ELSE ExtractCategoriesFrom(Tail(items),
                Append(acc, [name |-> GetTextStrip(category[1].text),
                             url |-> BASE_URL \o category[1].href[1]]))

ExtractCategories(m) == ExtractCategoriesFrom(m.carousel, <<>>)

\* main.py 103-113: the SKU loop
RECURSIVE ExtractProductsFrom(_, _)
ExtractProductsFrom(items, acc) ==
    IF items = <<>> THEN Ok(acc)
    ELSE LET item == Head(items) IN
         IF item.title = <<>> \/ item.image = <<>> \/ item.price = <<>>
         THEN ExtractProductsFrom(Tail(items), acc)
         ELSE IF item.image[1].src = <<>> THEN Raised(KeyError(SRC))
         ELSE ExtractProductsFrom(Tail(items),
                Append(acc, [name |-> Strip(Text(item.title[1].text)),
                             photo |-> item.image[1].src[1],
                             price |-> Strip(Text(item.price[1].text))]))

ExtractProducts(m) == ExtractProductsFrom(m.skus, <<>>)

\* variant: the last matching category wins
RECURSIVE MatchLast(_, _)
MatchLast(categories, category_name) ==
    IF categories = <<>> THEN <<>>
    ELSE LET later == MatchLast(Tail(categories), category_name) IN
         IF later # <<>> THEN later
         ELSE IF Lower(Head(categories).name) = Lower(category_name)
              THEN <<Head(categories)>>
              ELSE <<>>

\* variant: next(..., categories[0]) -- the first category when none matches
MatchOrFirst(categories, category_name) ==
    LET hits == SelectSeq(categories,
                    LAMBDA c : Lower(c.name) = Lower(category_name)) IN
    IF hits # <<>> THEN <<hits[1]>>
    ELSE IF categories # <<>> THEN <<categories[1]>> ELSE <<>>

\* main.py 96: next((cat for cat in categories if ...), None), as <<cat>> or <<>>
RECURSIVE Match(_, _)
Match(categories, category_name) ==
    IF categories = <<>> THEN <<>>
    ELSE IF Lower(Head(categories).name) = Lower(category_name)
         THEN <<Head(categories)>>
         ELSE Match(Tail(categories), category_name)

\* main.py 98: the not-found message
NotFoundDetail(category_name) ==
    <<"Category '">> \o category_name \o <<"' not found.">>

(* ----------------------------- responses ------------------------------- *)
NoResponse == [status |-> 0, detail |-> <<>>, body |-> <<>>, unhandled |-> FALSE]
Success(body) == [status |-> 200, detail |-> <<>>, body |-> body, unhandled |-> FALSE]
ErrorResponse(code, detail) ==
    [status |-> code, detail |-> detail, body |-> <<>>, unhandled |-> FALSE]

\* variant: except KeyError, everything else leaves the handler
CatchKeyErrorOnly(e) ==
    IF e.cls = "KeyError" THEN ErrorResponse(500, Str(e))
    ELSE [status |-> 500, detail |-> <<"Internal Server Error">>,
          body |-> <<>>, unhandled |-> TRUE]

\* main.py 66-67 / 115-116: except Exception as e: raise HTTPException(500, str(e))
Catch(e) == ErrorResponse(500, Str(e))

(* ------------------------------- state --------------------------------- *)
VARIABLES
    active,     \* the requests being served
    clients,    \* the queries clients send: <<route, category_name>>
    site,       \* what the scraped site serves
    sessions,   \* per request: the browser sessions it has opened, in order
    req         \* per request: the handler's position and locals

vars == <<active, clients, site, sessions, req>>

Requests == 1..NumReq
Names == { <<"T", "V">>, <<"t">>, <<"p", "c">> }
Queries == { <<"categories", <<>>>> } \cup { <<"products", n>> : n \in Names }

HomePages == { Markup(FALSE, c, <<>>) : c \in SeqsUpTo(CarouselItems, MaxItems) }
CategoryPages == { Markup(FALSE, <<>>, k) : k \in SeqsUpTo(SkuItems, MaxItems) }
Unknown == <<>>

\* the markup the site serves at url (a page is fixed once it has been served)
PageAt(st, url) == IF url = BASE_URL THEN st.home ELSE st.category
PagesFor(url) == IF url = BASE_URL THEN HomePages ELSE CategoryPages
Serve(st, url, m) ==
    IF url = BASE_URL THEN [st EXCEPT !.home = <<m>>]
    ELSE [st EXCEPT !.category = <<m>>]

NewSession(r, url) ==
    [owner |-> r, url |-> url, pw |-> TRUE, browser |-> "none", page |-> FALSE,
     rendered |-> Blank, trace |-> <<>>, error |-> NoExc, returned |-> <<>>]

IdleRequest ==
    [kind |-> "none", category_name |-> <<>>, pc |-> "idle", phase |-> "none",
     sid |-> 0, content |-> Blank, exc |-> NoExc, response |-> NoResponse]

Did(s, r, op) == [s EXCEPT !.trace = Append(@, [op |-> op, by |-> r])]

\* variant: the driver is stopped only once browser.close() has run
StopSessionAfterClose(s) ==
    IF s.browser = "open" THEN s ELSE [s EXCEPT !.pw = FALSE, !.page = FALSE]

\* main.py 35: leaving "async with async_playwright()" stops the driver and
\* with it any browser still running
StopSession(s) ==
    [s EXCEPT !.pw = FALSE,
              !.browser = IF @ = "open" THEN "closed" ELSE @,
              !.page = FALSE]

\* variant: browser and page kept in module globals, so a request acts on the
\* session of the lowest-numbered request that has one running
HandleShared(r) ==
    LET live == { q \in Requests : req[q].sid > 0 /\ sessions[q][req[q].sid].pw } IN
    IF live = {} THEN <<r, req[r].sid>>
    ELSE LET q == CHOOSE q \in live : \A p \in live : q <= p IN <<q, req[q].sid>>

\* the session a request's browser/page locals refer to: <<opener, index>>
Handle(r) == <<r, req[r].sid>>
Session(h) == sessions[h[1]][h[2]]

MaxFaults == 1
Faults ==
    Cardinality({ h \in Requests \X (1..2) :
                    /\ h[2] <= Len(sessions[h[1]])
                    /\ Session(h).error # NoExc })

InitWith(reqs, qs, sites) ==
    /\ active = reqs
    /\ clients = qs
    /\ site \in sites
    /\ sessions = [r \in Requests |-> <<>>]
    /\ req = [r \in Requests |-> IdleRequest]

Init ==
    InitWith({1}, Queries,
             { [home |-> Unknown, category |-> Unknown, interstitial |-> i] :
               i \in BOOLEAN })

ConcHome ==
    Markup(FALSE, <<[a |-> <<Anchor(<<<<"T", "v">>>>, <<<<"/", "a">>>>)>>]>>, <<>>)
ConcCategory == Markup(FALSE, <<>>, <<Sku(TitleX, Img, Price1)>>)
InitConc ==
    InitWith(Requests, { <<"categories", <<>>>>, <<"products", <<"T", "V">>>> },
             { [home |-> <<ConcHome>>, category |-> <<ConcCategory>>,
                interstitial |-> i] : i \in BOOLEAN })

(* ------------------------ fetch_page_source ---------------------------- *)
\* entering the call: main.py 35, a fresh playwright context
Call(r, rq, url, open) ==
    /\ sessions' = [open EXCEPT ![r] = Append(@, NewSession(r, url))]
    /\ req' = [req EXCEPT ![r] = [rq EXCEPT !.pc = "launch",
                                            !.sid = Len(open[r]) + 1,
                                            !.content = Blank]]

Advance(r, to, s) ==
    /\ sessions' = [sessions EXCEPT ![Handle(r)[1]][Handle(r)[2]] = s]
    /\ req' = [req EXCEPT ![r].pc = to]

\* the handler is entered; both handlers begin with fetch_page_source(BASE_URL)
Receive(r) ==
    /\ req[r].pc = "idle"
    /\ \E q \in clients :
         Call(r, [req[r] EXCEPT !.kind = q[1], !.category_name = q[2],
                                !.phase = "home"], BASE_URL, sessions)
    /\ UNCHANGED <<active, clients, site>>

\* main.py 36
Launch(r) ==
    /\ req[r].pc = "launch"
    /\ Advance(r, "new_page", Did([Session(Handle(r)) EXCEPT !.browser = "open"], r, "launch"))
    /\ UNCHANGED <<active, clients, site>>

\* main.py 37
NewPage(r) ==
    /\ req[r].pc = "new_page"
    /\ Advance(r, "goto", Did([Session(Handle(r)) EXCEPT !.page = TRUE], r, "new_page"))
    /\ UNCHANGED <<active, clients, site>>

\* main.py 38
Goto(r) ==
    /\ req[r].pc = "goto"
    /\ LET s == Session(Handle(r)) IN
       \E m \in (IF PageAt(site, s.url) = Unknown THEN PagesFor(s.url)
                 ELSE {PageAt(site, s.url)[1]}) :
         /\ site' = Serve(site, s.url, m)
         /\ Advance(r, "content1",
                Did([s EXCEPT !.rendered = IF site.interstitial THEN Interstitial ELSE m],
                    r, "goto"))
    /\ UNCHANGED <<active, clients>>

\* main.py 39
Content1(r) ==
    /\ req[r].pc = "content1"
    /\ LET s == Session(Handle(r)) IN
       Advance(r, IF HasChooseCountry(s.rendered) THEN "click" ELSE "content2",
               Did(s, r, "content"))
    /\ UNCHANGED <<active, clients, site>>

\* main.py 40
Click(r) ==
    /\ req[r].pc = "click"
    /\ Advance(r, "wait", Did(Session(Handle(r)), r, "click"))
    /\ UNCHANGED <<active, clients, site>>

\* main.py 41: the US site has loaded
WaitIdle(r) ==
    /\ req[r].pc = "wait"
    /\ LET s == Session(Handle(r)) IN
       Advance(r, "content2",
               Did([s EXCEPT !.rendered = PageAt(site, s.url)[1]], r, "wait"))
    /\ UNCHANGED <<active, clients, site>>

\* the markup main.py 42 assigns to content
FinalContent(s) == s.rendered

\* main.py 42
Content2(r) ==
    /\ req[r].pc = "content2"
    /\ LET s == Session(Handle(r)) IN
       /\ sessions' = [sessions EXCEPT ![Handle(r)[1]][Handle(r)[2]] = Did(s, r, "content")]
       /\ req' = [req EXCEPT ![r].pc = "close",
                             ![r].content = FinalContent(s)]
    /\ UNCHANGED <<active, clients, site>>

\* main.py 43
Close(r) ==
    /\ req[r].pc = "close"
    /\ Advance(r, "aexit", Did([Session(Handle(r)) EXCEPT !.browser = "closed", !.page = FALSE], r, "close"))
    /\ UNCHANGED <<active, clients, site>>

FailPoints == {"launch", "new_page", "goto", "content1", "click", "wait", "content2", "close"}

\* main.py 36-43: any awaited browser operation may raise instead
Fail(r) ==
    /\ req[r].pc \in FailPoints
    /\ Faults < MaxFaults
    /\ LET e == PlaywrightError(req[r].pc) IN
       /\ sessions' = [sessions EXCEPT ![Handle(r)[1]][Handle(r)[2]] = [Did(@, r, "raise") EXCEPT !.error = e]]
       /\ req' = [req EXCEPT ![r].pc = "aexit", ![r].exc = e]
    /\ UNCHANGED <<active, clients, site>>

(* ------------------------------ handlers ------------------------------- *)
\* the try block's outcome answered: return value, or the except clause
Respond(result) ==
    IF result.exc = NoExc THEN Success(result.val) ELSE Catch(result.exc)

\* main.py 57-65
CategoriesBody(page_source) == ExtractCategories(page_source)

\* main.py 86-98: the matched category, or what the try block raises
Resolve(page_source, category_name) ==
    LET ex == ExtractCategories(page_source) IN
    IF ex.exc # NoExc THEN ex
    ELSE LET category == Match(ex.val, category_name) IN
         IF category = <<>>
         THEN Raised(HTTPException(404, NotFoundDetail(category_name)))
         ELSE Ok(category[1])

\* main.py 102-114
ProductsBody(page_source) == ExtractProducts(page_source)

Finish(r, closed, response) ==
    /\ sessions' = closed
    /\ req' = [req EXCEPT ![r].pc = "done", ![r].response = response]

Released(r) == [sessions EXCEPT ![Handle(r)[1]][Handle(r)[2]] = StopSession(@)]
Returned(r) ==
    [sessions EXCEPT ![Handle(r)[1]][Handle(r)[2]] =
        [StopSession(@) EXCEPT !.returned = <<req[r].content>>]]

\* an exception leaves the async with block and reaches the handler's except
ExitRaise(r) ==
    /\ req[r].pc = "aexit"
    /\ req[r].exc # NoExc
    /\ Finish(r, Released(r), Catch(req[r].exc))
    /\ UNCHANGED <<active, clients, site>>

\* main.py 44, 56-65: the home page is returned to fetch_categories
ExitCategories(r) ==
    /\ req[r].pc = "aexit"
    /\ req[r].exc = NoExc
    /\ req[r].kind = "categories"
    /\ Finish(r, Returned(r), Respond(CategoriesBody(req[r].content)))
    /\ UNCHANGED <<active, clients, site>>

\* main.py 44, 85-101: the home page is returned to fetch_category_products
ExitResolve(r) ==
    /\ req[r].pc = "aexit"
    /\ req[r].exc = NoExc
    /\ req[r].kind = "products"
    /\ req[r].phase = "home"
    /\ LET res == Resolve(req[r].content, req[r].category_name) IN
       IF res.exc = NoExc
       THEN Call(r, [req[r] EXCEPT !.phase = "category"], res.val.url, Returned(r))
       ELSE Finish(r, Returned(r), Catch(res.exc))
    /\ UNCHANGED <<active, clients, site>>

\* main.py 44, 101-114: the category page is returned
ExitProducts(r) ==
    /\ req[r].pc = "aexit"
    /\ req[r].exc = NoExc
    /\ req[r].kind = "products"
    /\ req[r].phase = "category"
    /\ Finish(r, Returned(r), Respond(ProductsBody(req[r].content)))
    /\ UNCHANGED <<active, clients, site>>

Next ==
    \E r \in active :
        \/ Receive(r)
        \/ Launch(r)
        \/ NewPage(r)
        \/ Goto(r)
        \/ Content1(r)
        \/ Click(r)
        \/ WaitIdle(r)
        \/ Content2(r)
        \/ Close(r)
        \/ Fail(r)
        \/ ExitRaise(r)
        \/ ExitCategories(r)
        \/ ExitResolve(r)
        \/ ExitProducts(r)

Spec == Init /\ [][Next]_vars
SpecConc == InitConc /\ [][Next]_vars

(* ============================ properties =============================== *)
Done(r) == req[r].pc = "done"
Ops(s) == [i \in 1..Len(s.trace) |-> s.trace[i].op]
Count(s, op) == Cardinality({ i \in 1..Len(s.trace) : s.trace[i].op = op })

\* the n-th call of r returned markup
ReturnedTo(r, n) == Len(sessions[r]) >= n /\ sessions[r][n].returned # <<>>
PageOf(r, n) == sessions[r][n].returned[1]

\* equality ignoring letter case, position by position
SameLetter(x, y) ==
    x = y \/ \E k \in 1..Len(Upper) : {x, y} = {Upper[k], LowerOf[k]}
EqIgnoreCase(a, b) ==
    Len(a) = Len(b) /\ \A i \in 1..Len(a) : SameLetter(a[i], b[i])

\* the carousel loop met an anchor without href / the SKU loop an image without src
AnchorLacksHref(m) ==
    \E i \in 1..Len(m.carousel) :
        m.carousel[i].a # <<>> /\ m.carousel[i].a[1].href = <<>>
AllFound(item) == item.title # <<>> /\ item.image # <<>> /\ item.price # <<>>
ImageLacksSrc(m) ==
    \E i \in 1..Len(m.skus) : AllFound(m.skus[i]) /\ m.skus[i].image[1].src = <<>>

\* the home page was parsed to the end and some / no category carries the name
Extracted(r) == ReturnedTo(r, 1) /\ ~AnchorLacksHref(PageOf(r, 1))
CategoriesOf(r) == ExtractCategories(PageOf(r, 1)).val
Matches(r) ==
    { i \in 1..Len(CategoriesOf(r)) :
        EqIgnoreCase(CategoriesOf(r)[i].name, req[r].category_name) }

\* host and path are separated by exactly one "/"
WellFormedJoin(u) ==
    /\ Len(u) >= 2
    /\ u[1] = BASE_URL[1]
    /\ u[2] = "/"
    /\ Len(u) >= 3 => u[3] # "/"

(* C1: a /category-products request whose category_name equals no extracted *)
(* category name, ignoring case, is answered 404 with a message naming the  *)
(* requested name, and with no other status.                                *)
C1_NoMatchIs404 ==
    \A r \in active :
        (Done(r) /\ req[r].kind = "products" /\ Extracted(r) /\ Matches(r) = {})
        => /\ req[r].response.status = 404
           /\ req[r].response.detail = NotFoundDetail(req[r].category_name)

(* C2: once a fetch_page_source call has ended, by return or by raising at   *)
(* any step, the session it opened is released: only the call in progress   *)
(* holds a running driver, browser or page.                                  *)
InCall == {"launch", "new_page", "goto", "content1", "click", "wait",
           "content2", "close", "aexit"}
C2_SessionReleased ==
    \A r \in Requests : \A i \in 1..Len(sessions[r]) :
        LET s == sessions[r][i] IN
        (s.pw \/ s.browser = "open" \/ s.page)
        => (req[r].pc \in InCall /\ req[r].sid = i)

C2_Witness ==
    \E r \in active :
        /\ Done(r)
        /\ \E i \in 1..Len(sessions[r]) :
             LET s == sessions[r][i] IN
             /\ s.error # NoExc
             /\ Count(s, "launch") = 1
             /\ Count(s, "close") = 0
             /\ s.browser = "closed"
             /\ ~s.pw

(* C3: an item lacking a required part (no anchor, anchor without href, no   *)
(* title, image or price element, image without src) is dropped silently:    *)
(* the request succeeds with the records of the remaining items.             *)
CompleteCarousel(m) ==
    { i \in 1..Len(m.carousel) :
        m.carousel[i].a # <<>> /\ m.carousel[i].a[1].href # <<>> }
CompleteSkus(m) ==
    { i \in 1..Len(m.skus) :
        AllFound(m.skus[i]) /\ m.skus[i].image[1].src # <<>> }
C3_IncompleteItemsDropped ==
    \A r \in active :
        /\ (Done(r) /\ req[r].kind = "categories" /\ ReturnedTo(r, 1))
           => /\ req[r].response.status = 200
              /\ Len(req[r].response.body) = Cardinality(CompleteCarousel(PageOf(r, 1)))
        /\ (Done(r) /\ req[r].kind = "products" /\ ReturnedTo(r, 2))
           => /\ req[r].response.status = 200
              /\ Len(req[r].response.body) = Cardinality(CompleteSkus(PageOf(r, 2)))

(* C4: every category URL emitted by /categories or loaded by                *)
(* /category-products has exactly one "/" between host and path, whether or  *)
(* not the scraped href starts with one.                                     *)
C4_UrlsWellFormed ==
    \A r \in active :
        /\ Len(sessions[r]) >= 2 => WellFormedJoin(sessions[r][2].url)
        /\ (Done(r) /\ req[r].kind = "categories" /\ req[r].response.status = 200)
           => \A i \in 1..Len(req[r].response.body) :
                  WellFormedJoin(req[r].response.body[i].url)

(* C5: a failure of browser automation (any awaited step) or of parsing (an  *)
(* attribute lookup) ends the request with status 500 whose detail is the    *)
(* text of the raised error; it never escapes the handler unhandled and      *)
(* never yields a success.                                                   *)
Is500(resp, text) ==
    resp.status = 500 /\ resp.detail = text /\ ~resp.unhandled
C5_FailureIs500 ==
    \A r \in active :
        Done(r) =>
          /\ \A i \in 1..Len(sessions[r]) :
                sessions[r][i].error # NoExc
                => Is500(req[r].response, sessions[r][i].error.msg)
          /\ (ReturnedTo(r, 1) /\ AnchorLacksHref(PageOf(r, 1)))
             => Is500(req[r].response, <<"'", "h", "r", "e", "f", "'">>)
          /\ (req[r].kind = "products" /\ ReturnedTo(r, 2) /\ ImageLacksSrc(PageOf(r, 2)))
             => Is500(req[r].response, <<"'", "s", "r", "c", "'">>)

C5_Witness ==
    \E r \in active :
        /\ Done(r)
        /\ req[r].kind = "products"
        /\ ReturnedTo(r, 2)
        /\ ImageLacksSrc(PageOf(r, 2))
        /\ req[r].response.status = 500

(* C6: within one fetch_page_source call, when the markup read after the     *)
(* navigation contains "Choose a country" there is exactly one click, then   *)
(* exactly one idle-wait, then the final read, whose markup is returned;     *)
(* when it does not, there is no click and no idle-wait.                     *)
WithInterstitial ==
    <<"launch", "new_page", "goto", "content", "click", "wait", "content", "close">>
WithoutInterstitial ==
    <<"launch", "new_page", "goto", "content", "content", "close">>
C6_OneClickIffInterstitial ==
    \A r \in Requests : \A i \in 1..Len(sessions[r]) :
        LET s == sessions[r][i] IN
        /\ Count(s, "click") <= 1 /\ Count(s, "wait") <= 1
        /\ ~site.interstitial => (Count(s, "click") = 0 /\ Count(s, "wait") = 0)
        /\ s.returned # <<>> =>
             /\ Ops(s) = IF site.interstitial THEN WithInterstitial
                         ELSE WithoutInterstitial
             /\ s.returned[1] = PageAt(site, s.url)[1]

C6_Witness ==
    \E r \in active : \E i \in 1..Len(sessions[r]) :
        /\ site.interstitial
        /\ sessions[r][i].returned # <<>>
        /\ Count(sessions[r][i], "click") = 1

(* C7: a SKU item yields a product record exactly when its title anchor,     *)
(* image element and price element are all found; the products list holds    *)
(* those records in document order with the fields name (trimmed title),     *)
(* photo (image src) and price (trimmed price), and nothing else.            *)
RECURSIVE ProductsOfFound(_)
ProductsOfFound(items) ==
    IF items = <<>> THEN <<>>
    ELSE LET item == Head(items) IN
         IF AllFound(item)
         THEN <<[name |-> Strip(Text(item.title[1].text)),
                 photo |-> Text(item.image[1].src),
                 price |-> Strip(Text(item.price[1].text))]>>
              \o ProductsOfFound(Tail(items))
         ELSE ProductsOfFound(Tail(items))
C7_RecordIffAllFound ==
    \A r \in active :
        (Done(r) /\ req[r].kind = "products" /\ ReturnedTo(r, 2))
        => /\ req[r].response.status = 200
           /\ req[r].response.body = ProductsOfFound(PageOf(r, 2).skus)

(* C8: the requested name is compared with each extracted name ignoring case *)
(* and as a whole, and the products are loaded from the URL of the earliest  *)
(* matching category in document order, never from a later one.              *)
C8_FirstMatchWins ==
    \A r \in active :
        /\ Len(sessions[r]) = 2 =>
             /\ Extracted(r)
             /\ Matches(r) # {}
             /\ \E i \in Matches(r) :
                  /\ \A j \in Matches(r) : i <= j
                  /\ sessions[r][2].url = CategoriesOf(r)[i].url
        /\ (Done(r) /\ req[r].kind = "products" /\ Extracted(r) /\ Matches(r) # {})
           => Len(sessions[r]) = 2

C8_Witness ==
    \E r \in active :
        /\ Len(sessions[r]) = 2
        /\ Cardinality(Matches(r)) = 2
        /\ \A i \in Matches(r) : CategoriesOf(r)[i].name # req[r].category_name
        /\ CategoriesOf(r)[1].url # CategoriesOf(r)[2].url

(* C9: page loads per request are fixed in number and order: /categories     *)
(* opens one session; /category-products opens the home URL first and, only  *)
(* after that session is closed, the matched category URL, two in all when   *)
(* the name matches and one when it does not; a failed load is the last.     *)
C9_FixedPageLoads ==
    \A r \in active :
        LET n == Len(sessions[r]) IN
        /\ n <= 2
        /\ n >= 1 => sessions[r][1].url = BASE_URL
        /\ n = 2 => (req[r].kind = "products" /\ ~sessions[r][1].pw
                     /\ sessions[r][1].browser = "closed")
        /\ \A i \in 1..n : sessions[r][i].error # NoExc => i = n
        /\ Done(r) =>
             /\ n >= 1
             /\ n = 2 <=> (req[r].kind = "products" /\ Extracted(r) /\ Matches(r) # {})

C9_Witness ==
    \E r \in active :
        /\ Done(r)
        /\ Len(sessions[r]) = 2
        /\ sessions[r][2].error # NoExc

(* C10: under any interleaving of concurrent requests, a session is used and *)
(* closed only by the request that opened it, and each response is the one   *)
(* the request produces alone against the same pages with the same failures  *)
(* of its own; another request's failure changes nothing.                    *)
Alone(r) ==
    LET n == Len(sessions[r]) IN
    IF sessions[r][1].error # NoExc THEN Catch(sessions[r][1].error)
    ELSE IF req[r].kind = "categories"
         THEN Respond(CategoriesBody(site.home[1]))
         ELSE LET res == Resolve(site.home[1], req[r].category_name) IN
              IF res.exc # NoExc THEN Catch(res.exc)
              ELSE IF n < 2 THEN NoResponse
              ELSE IF sessions[r][2].error # NoExc THEN Catch(sessions[r][2].error)
              ELSE Respond(ProductsBody(PageAt(site, res.val.url)[1]))
C10_Isolation ==
    \A r \in Requests :
        /\ \A i \in 1..Len(sessions[r]) :
             /\ sessions[r][i].owner = r
             /\ \A k \in 1..Len(sessions[r][i].trace) : sessions[r][i].trace[k].by = r
        /\ Done(r) => (Len(sessions[r]) >= 1 /\ req[r].response = Alone(r))

C10_Witness ==
    \E r1 \in active : \E r2 \in active \ {r1} :
        /\ Done(r1) /\ req[r1].response.status = 500
        /\ sessions[r1][1].error # NoExc
        /\ Len(sessions[r1][1].trace) >= 3
        /\ Done(r2) /\ req[r2].response.status = 200
        /\ req[r2].kind = "products"

====
